---- MODULE Spec2Model ----
(***************************************************************************)
(* Model of the MMLT renderer core (davidtemplin/mmlt): the primary-sample *)
(* space sampler (src/src/sampler.rs), the path builder and contribution   *)
(* estimator (src/src/path.rs) and the Metropolis integrator               *)
(* (src/src/integrator.rs).                                                *)
(*                                                                         *)
(* Numbers.  A unit-interval value produced by the random generator is a   *)
(* grid index v in 0..Grid-1 standing for the real v/Grid; a coordinate of *)
(* the sampler is known by its cell v, the reals from v/Grid up to         *)
(* (v+1)/Grid.  Every other f64 is an extended rational [n, d]: d > 0 is   *)
(* the fraction n/d in lowest terms, [1,0] and [-1,0] are the two          *)
(* infinities and [0,0] is NaN, with the IEEE rules for the operations on  *)
(* them (rounding is not modelled).                                        *)
(***************************************************************************)
EXTENDS Integers, Sequences, FiniteSets, TLC

\* ------------------------------------------------------------------ bounds
\* number of grid cells of the unit interval [0,1)
Grid == 2
\* the protocol driver draws only coordinate slots below MaxSlots
MaxSlots == 2
\* largest value of the sampler's iteration counter that is explored
MaxIter == 2
\* the configuration of the integrator: max_path_length, initial_sample_count,
\* average_samples_per_pixel, and width * height of the image
MaxPathLength == 4
\* the iterations of the run loop that are explored
MaxLoop == 2
InitialSampleCount == 1
AverageSamplesPerPixel == 1
PixelCount == 1

\* --------------------------------------------------------- program constants
\* path.rs: const STREAM_COUNT
STREAM_COUNT == 3
TECHNIQUE_STREAM == 0
LIGHT_STREAM == 1
CAMERA_STREAM == 2
\* sampler.rs: large_step_probability: 0.3, as the fraction LargeStepNum/LargeStepDen
LargeStepNum == 3
LargeStepDen == 10

Vals == 0..(Grid - 1)
\* grid displacement of a small step whose coordinate is n > 0 iterations old
Offsets == {-1, 0, 1}

\* ------------------------------------------------------------------ sampler
\* Sample::new
NewSample(v) ==
  [value |-> v, backup_value |-> v, modified_at |-> 0, backup_modified_at |-> 0]

\* Sample::backup
Backup(x) ==
  [x EXCEPT !.backup_value = x.value, !.backup_modified_at = x.modified_at]

\* Sample::restore
Restore(x) ==
  [x EXCEPT !.value = x.backup_value, !.modified_at = x.backup_modified_at]

\* MmltSampler::new(stream_count): Path::sampler() always passes STREAM_COUNT.
\* Two fields are history, not fields of the struct: drawn, the slots that
\* sample() has addressed since the last mutate() (since new() before the
\* first), and twice, whether one of them was addressed a second time
NewSampler ==
  [stream_index |-> 0, sample_index |-> 0, samples |-> << >>,
   iteration |-> 0, large_step_at |-> 0, mutation_type |-> "SmallStep",
   drawn |-> {}, twice |-> FALSE]

\* the test of mutate(): r < large_step_probability, r the grid value u/Grid
IsLargeDraw(u) == u * LargeStepDen < LargeStepNum * Grid

MutateKeepsIteration(s, u) ==
  [s EXCEPT !.mutation_type = IF IsLargeDraw(u) THEN "LargeStep" ELSE "SmallStep",
            !.drawn = {}, !.twice = FALSE]

\* MmltSampler::mutate, u the value the generator returns
Mutate(s, u) ==
  [s EXCEPT !.iteration = s.iteration + 1,
            !.mutation_type = IF IsLargeDraw(u) THEN "LargeStep" ELSE "SmallStep",
            !.drawn = {}, !.twice = FALSE]

AcceptAlways(s) ==
  [s EXCEPT !.large_step_at = s.iteration]

\* MmltSampler::accept
Accept(s) ==
  IF s.mutation_type = "LargeStep"
  THEN [s EXCEPT !.large_step_at = s.iteration]
  ELSE s

RejectKeepsValues(s) == [s EXCEPT !.iteration = s.iteration - 1]

RejectKeepsIteration(s) ==
  [s EXCEPT !.samples = [i \in DOMAIN s.samples |->
                           IF s.samples[i].modified_at = s.iteration
                           THEN Restore(s.samples[i]) ELSE s.samples[i]]]

\* MmltSampler::reject (the caller guards iteration > 0: u64 subtraction)
Reject(s) ==
  [s EXCEPT !.samples = [i \in DOMAIN s.samples |->
                           IF s.samples[i].modified_at = s.iteration
                           THEN Restore(s.samples[i]) ELSE s.samples[i]],
            !.iteration = s.iteration - 1]

StartStreamPanicsOnLast(index) == index >= STREAM_COUNT - 1

\* start_stream panics exactly on this condition
StartStreamPanics(index) == index >= STREAM_COUNT

StartStreamKeepsCursor(s, index) ==
  [s EXCEPT !.stream_index = index]

\* MmltSampler::start_stream for an index that does not panic
StartStream(s, index) ==
  [s EXCEPT !.stream_index = index, !.sample_index = 0]

SlotIndexDense(s) == s.sample_index + s.stream_index

\* the coordinate slot sample() addresses (0-based, as in the code)
SlotIndex(s) == STREAM_COUNT * s.sample_index + s.stream_index

\* number of samples the while loop of sample() pushes
Missing(s) ==
  IF SlotIndex(s) >= Len(s.samples) THEN SlotIndex(s) + 1 - Len(s.samples) ELSE 0

\* value - floor(value) on the grid
Wrap(v) == v % Grid

SampleKeepsStamp(s, fresh, catchup, step) ==
  LET index  == SlotIndex(s)
      pushed == s.samples \o [j \in 1..Len(fresh) |-> NewSample(fresh[j])]
      x0 == pushed[index + 1]
      x1 == IF x0.modified_at < s.large_step_at
            THEN [x0 EXCEPT !.value = catchup]
            ELSE x0
      x2 == Backup(x1)
      x3 == IF s.mutation_type = "SmallStep"
            THEN [x2 EXCEPT !.value =
                    Wrap(x2.value + (IF s.iteration - x2.modified_at = 0 THEN 0 ELSE step))]
            ELSE [x2 EXCEPT !.value = Wrap(step)]
      x4 == [x3 EXCEPT !.modified_at = s.iteration]
  IN  [s EXCEPT !.samples = [pushed EXCEPT ![index + 1] = x4],
                !.sample_index = s.sample_index + 1,
                !.drawn = s.drawn \cup {index},
                !.twice = (s.twice \/ index \in s.drawn)]

SampleBackupLate(s, fresh, catchup, step) ==
  LET index  == SlotIndex(s)
      pushed == s.samples \o [j \in 1..Len(fresh) |-> NewSample(fresh[j])]
      x0 == pushed[index + 1]
      x1 == IF x0.modified_at < s.large_step_at
            THEN [x0 EXCEPT !.value = catchup, !.modified_at = s.large_step_at]
            ELSE x0
      x3 == IF s.mutation_type = "SmallStep"
            THEN [x1 EXCEPT !.value =
                    Wrap(x1.value + (IF s.iteration - x1.modified_at = 0 THEN 0 ELSE step))]
            ELSE [x1 EXCEPT !.value = Wrap(step)]
      x4 == Backup([x3 EXCEPT !.modified_at = s.iteration])
  IN  [s EXCEPT !.samples = [pushed EXCEPT ![index + 1] = x4],
                !.sample_index = s.sample_index + 1,
                !.drawn = s.drawn \cup {index},
                !.twice = (s.twice \/ index \in s.drawn)]

\* MmltSampler::sample: fresh are the values given to the pushed samples,
\* catchup the value of the lazy catch-up, step the large-step value or the
\* grid displacement of the small step
Sample(s, fresh, catchup, step) ==
  LET index  == SlotIndex(s)
      pushed == s.samples \o [j \in 1..Len(fresh) |-> NewSample(fresh[j])]
      x0 == pushed[index + 1]
      x1 == IF x0.modified_at < s.large_step_at
            THEN [x0 EXCEPT !.value = catchup, !.modified_at = s.large_step_at]
            ELSE x0
      x2 == Backup(x1)
      x3 == IF s.mutation_type = "SmallStep"
            THEN [x2 EXCEPT !.value =
                    Wrap(x2.value + (IF s.iteration - x2.modified_at = 0 THEN 0 ELSE step))]
            ELSE [x2 EXCEPT !.value = Wrap(step)]
      x4 == [x3 EXCEPT !.modified_at = s.iteration]
  IN  [s EXCEPT !.samples = [pushed EXCEPT ![index + 1] = x4],
                !.sample_index = s.sample_index + 1,
                !.drawn = s.drawn \cup {index},
                !.twice = (s.twice \/ index \in s.drawn)]

\* the unit value sample() scales into its range: the stored value of the slot
\* it has just drawn
Drawn(s1) == s1.samples[STREAM_COUNT * (s1.sample_index - 1) + s1.stream_index + 1].value

\* whether the drawn slot is caught up / how old it is, to enumerate only the
\* generator outputs sample() consumes
SlotStale(s) ==
  IF SlotIndex(s) < Len(s.samples)
  THEN s.samples[SlotIndex(s) + 1].modified_at < s.large_step_at
  ELSE 0 < s.large_step_at

SlotAge(s) ==
  IF SlotStale(s) THEN s.iteration - s.large_step_at
  ELSE IF SlotIndex(s) < Len(s.samples)
       THEN s.iteration - s.samples[SlotIndex(s) + 1].modified_at
       ELSE s.iteration

\* every sampler sample() can leave behind when the generator returns values of R
SampleOutcomes(s, R) ==
  { Sample(s, fresh, catchup, step) :
      fresh \in [1..Missing(s) -> R],
      catchup \in (IF SlotStale(s) THEN R ELSE {0}),
      step \in (IF s.mutation_type = "LargeStep" THEN R
                ELSE IF SlotAge(s) = 0 THEN {0} ELSE Offsets) }

\* -------------------------------------------------------------- f64 values
RECURSIVE GCD(_, _)
GCD(a, b) == IF b = 0 THEN a ELSE GCD(b, a % b)

Abs(i) == IF i < 0 THEN -i ELSE i
Sgn(i) == IF i < 0 THEN -1 ELSE IF i > 0 THEN 1 ELSE 0

\* the f64 n/d: lowest terms, d > 0; n/0 is an infinity or (0/0) NaN
R(n, d) ==
  IF d = 0 THEN [n |-> Sgn(n), d |-> 0]
  ELSE LET g == GCD(Abs(n), Abs(d))
           s == IF d < 0 THEN -1 ELSE 1
       IN  [n |-> (s * n) \div g, d |-> (s * d) \div g]

Zero == [n |-> 0, d |-> 1]
One == [n |-> 1, d |-> 1]
NaN == [n |-> 0, d |-> 0]
Inf == [n |-> 1, d |-> 0]
IsNaN(x) == x.d = 0 /\ x.n = 0

RMul(a, b) == R(a.n * b.n, a.d * b.d)
RInv(b) ==
  IF b.n = 0 THEN (IF b.d = 0 THEN NaN ELSE Inf)
  ELSE IF b.n < 0 THEN [n |-> -b.d, d |-> -b.n] ELSE [n |-> b.d, d |-> b.n]
RDiv(a, b) == RMul(a, RInv(b))
RAdd(a, b) ==
  IF a.d = 0 /\ b.d = 0 THEN (IF a.n = b.n THEN a ELSE NaN)
  ELSE R(a.n * b.d + b.n * a.d, a.d * b.d)
RNeg(a) == [n |-> -a.n, d |-> a.d]
RSub(a, b) == RAdd(a, RNeg(b))
\* the comparisons of f64: every comparison with NaN is false
RLt(a, b) ==
  /\ ~IsNaN(a) /\ ~IsNaN(b)
  /\ IF a.d = 0 /\ b.d = 0 THEN a.n < b.n
     ELSE IF a.d = 0 THEN a.n < 0
     ELSE IF b.d = 0 THEN b.n > 0
     ELSE a.n * b.d < b.n * a.d
REq(a, b) == ~IsNaN(a) /\ ~IsNaN(b) /\ a = b
RLe(a, b) == RLt(a, b) \/ REq(a, b)
\* f64::min and f64::max return the other operand when one is NaN
FMin(a, b) == IF IsNaN(a) THEN b ELSE IF IsNaN(b) THEN a ELSE IF RLt(b, a) THEN b ELSE a
FMax(a, b) == IF IsNaN(a) THEN b ELSE IF IsNaN(b) THEN a ELSE IF RLt(a, b) THEN b ELSE a
\* f64::floor of a finite value, as an integer
Floor(a) == a.n \div a.d

\* Option<f64>: None, and Some(x) as x itself
None == [n |-> 0, d |-> -1]
IsSome(o) == o.d # -1
UnwrapOr(o, x) == IF IsSome(o) THEN o ELSE x
\* Option::map(|p| p * x)
MapMul(o, x) == IF IsSome(o) THEN RMul(o, x) ELSE None

\* ------------------------------------------------- technique and acceptance
\* the subtraction path_length - camera on usize: an overflow-checking build
\* panics on underflow, the other wraps (light is then 2^64 + path_length -
\* camera, recorded as wrapped with the difference in light)
TechniqueOf(path_length, camera) ==
  IF camera <= path_length
  THEN {[camera |-> camera, light |-> path_length - camera,
         panicked |-> FALSE, wrapped |-> FALSE]}
  ELSE {[camera |-> camera, light |-> path_length - camera,
         panicked |-> TRUE, wrapped |-> FALSE],
        [camera |-> camera, light |-> path_length - camera,
         panicked |-> FALSE, wrapped |-> TRUE]}

TechniqueCameraFromZero(path_length, u) ==
  Floor(RMul(u, R(path_length + 1, 1)))

\* the camera count of Technique::sample: floor of the unit value u scaled
\* into the range 1.0..end, end = path_length + 1
TechniqueCamera(path_length, u) ==
  Floor(RAdd(RMul(u, RSub(R(path_length + 1, 1), One)), One))

\* Technique::sample for the unit value u the sampler returns
TechniqueSample(path_length, u) ==
  TechniqueOf(path_length, TechniqueCamera(path_length, u))

\* Technique::path_type, n 0-based
PathType(technique, n) == IF n < technique.camera THEN "Camera" ELSE "Light"

AcceptanceUnbounded(current, proposal) ==
  IF RLt(Zero, current) THEN FMax(RDiv(proposal, current), Zero) ELSE One

\* Contribution::acceptance on the two scalars
Acceptance(current, proposal) ==
  IF RLt(Zero, current)
  THEN FMax(FMin(One, RDiv(proposal, current)), Zero)
  ELSE One

\* ------------------------------------------------------------ interactions
\* An Interaction with the values its camera, light or object capability
\* returns to Path::connect for it.  spectrum is the importance, radiance or
\* reflectance; geometry_term, d2a_prev and d2a_next are util::geometry_term
\* towards the next vertex and util::direction_to_area towards the previous
\* and the next vertex; spectra are gray (r = g = b), given by their level.
Pixels == 0..(PixelCount - 1)

\* PinholeCamera: positional_pdf is Some(1.0), directional_pdf is Some(p)
CameraInteraction(pixel, directional) ==
  [kind |-> "Camera", id |-> "camera", spectrum |-> One, geometry_term |-> One,
   positional_pdf |-> One, directional_pdf |-> directional,
   sampling_pdf |-> None, pdf_light |-> None, pdf_camera |-> None,
   d2a_prev |-> One, d2a_next |-> One, pixel |-> pixel]

\* DiffuseAreaLight: sampling_pdf Some(1/light_count), positional_pdf
\* Some(1/area), directional_pdf Some(|cos|/pi); radiance black from behind
LightInteraction(radiance, directional) ==
  [kind |-> "Light", id |-> "light", spectrum |-> radiance, geometry_term |-> One,
   positional_pdf |-> One, directional_pdf |-> directional,
   sampling_pdf |-> One, pdf_light |-> None, pdf_camera |-> None,
   d2a_prev |-> One, d2a_next |-> One, pixel |-> 0]

\* an object hit: the Bsdf's evaluate, sampling_pdf and pdf for the two sides
ObjectInteraction(id, reflectance, sampling, pdf) ==
  [kind |-> "Object", id |-> id, spectrum |-> reflectance, geometry_term |-> One,
   positional_pdf |-> None, directional_pdf |-> None,
   sampling_pdf |-> sampling, pdf_light |-> pdf, pdf_camera |-> pdf,
   d2a_prev |-> One, d2a_next |-> One, pixel |-> 0]

Cameras == { CameraInteraction(px, One) : px \in Pixels }
Lights == { LightInteraction(rad, R(1, 2)) : rad \in {Zero, One} }
\* MatteMaterial (DiffuseBrdf: sampling_pdf None, pdf Some; black with pdf 0
\* across hemispheres) and MirrorMaterial (SpecularBrdf: sampling_pdf None,
\* pdf None; black off the mirror direction) and GlassMaterial
\* (DielectricBxdf: sampling_pdf Some on its two directions, pdf None)
Objects ==
  { ObjectInteraction("matte", One, None, R(1, 2)),
    ObjectInteraction("matte", Zero, None, Zero),
    ObjectInteraction("mirror", One, None, None),
    ObjectInteraction("mirror", Zero, None, None),
    ObjectInteraction("glass", One, R(1, 2), None) }

IsCamera(i) == i.kind = "Camera"
IsLight(i) == i.kind = "Light"
IsObject(i) == i.kind = "Object"

\* ---------------------------------------------------------- Path::connect
Vertex(throughput, forward_pdf, reverse_pdf) ==
  [throughput |-> throughput, forward_pdf |-> forward_pdf, reverse_pdf |-> reverse_pdf]

\* the closure combine of the Object branch
Combine(area, sampling) ==
  IF IsSome(area) THEN RMul(area, UnwrapOr(sampling, One)) ELSE sampling

\* sampling_pdf.and_then(|p1| positional_pdf.map(|p2| p1 * p2))
AndThenMul(p1, p2) == IF IsSome(p1) /\ IsSome(p2) THEN RMul(p1, p2) ELSE None

\* the vertex pushed for an interaction on the camera or the light side
SidedVertex(side, throughput, own, other) ==
  IF side = "Camera" THEN Vertex(throughput, own, other)
  ELSE Vertex(throughput, other, own)

\* back-patching vertices[index - 1] (index 0-based, the sequence 1-based)
PatchPrevious(vertices, technique, index, p) ==
  IF PathType(technique, index - 1) = "Camera"
  THEN [vertices EXCEPT ![index].reverse_pdf = p]
  ELSE [vertices EXCEPT ![index].forward_pdf = p]

ConnectInit ==
  [ok |-> TRUE, vertices |-> << >>, pixel |-> -1, area_pdf |-> None,
   previous_object_sampling_pdf |-> None]

\* one iteration of the loop of Path::connect; ok = FALSE is the early
\* return of a ? on an absent next or previous geometry
ConnectStep(interactions, technique, index, st) ==
  LET it == interactions[index + 1]
      has_next == index + 1 < Len(interactions)
      has_previous == index > 0
      side == PathType(technique, index)
  IN
  IF IsCamera(it) THEN
    IF ~has_next THEN [st EXCEPT !.ok = FALSE, !.pixel = it.pixel]
    ELSE [st EXCEPT
            !.pixel = it.pixel,
            !.area_pdf = MapMul(it.directional_pdf, it.d2a_next),
            !.vertices = Append(st.vertices,
               SidedVertex(side, RMul(it.spectrum, it.geometry_term),
                           it.positional_pdf, None))]
  ELSE IF IsLight(it) THEN
    IF ~has_previous THEN [st EXCEPT !.ok = FALSE]
    ELSE LET area_pdf == MapMul(it.directional_pdf, it.d2a_prev)
             lightv == IF side = "Camera"
                       THEN Vertex(it.spectrum, st.area_pdf,
                                   AndThenMul(it.sampling_pdf, it.positional_pdf))
                       ELSE Vertex(it.spectrum,
                                   AndThenMul(it.sampling_pdf, it.positional_pdf),
                                   st.area_pdf)
         IN [st EXCEPT
               !.area_pdf = area_pdf,
               !.vertices = PatchPrevious(Append(st.vertices, lightv),
                                          technique, index, area_pdf)]
  ELSE
    IF ~has_next \/ ~has_previous THEN [st EXCEPT !.ok = FALSE]
    ELSE LET own == Combine(st.area_pdf, st.previous_object_sampling_pdf)
             previous_area_pdf == MapMul(it.pdf_light, it.d2a_prev)
         IN [st EXCEPT
               !.area_pdf = MapMul(it.pdf_camera, it.d2a_next),
               !.previous_object_sampling_pdf = it.sampling_pdf,
               !.vertices = PatchPrevious(
                  Append(st.vertices,
                         SidedVertex(side, RMul(it.spectrum, it.geometry_term),
                                     own, None)),
                  technique, index,
                  Combine(previous_area_pdf, it.sampling_pdf))]

RECURSIVE ConnectFrom(_, _, _, _)
ConnectFrom(interactions, technique, index, st) ==
  IF ~st.ok \/ index >= Len(interactions) THEN st
  ELSE ConnectFrom(interactions, technique, index + 1,
                   ConnectStep(interactions, technique, index, st))

NoPath ==
  [ok |-> FALSE, vertices |-> << >>, camera |-> 0, light |-> 0,
   pixel_coordinates |-> 0, kinds |-> << >>]

\* Path::connect: the Path, or NoPath for None (pixel_coordinates? included).
\* kinds is history, not a field of the struct: the kind of the interaction
\* each vertex was made from
Connect(interactions, technique) ==
  LET st == ConnectFrom(interactions, technique, 0, ConnectInit)
  IN IF st.ok /\ st.pixel # -1
     THEN [ok |-> TRUE, vertices |-> st.vertices, camera |-> technique.camera,
           light |-> technique.light, pixel_coordinates |-> st.pixel,
           kinds |-> [i \in 1..Len(st.vertices) |-> interactions[i].kind]]
     ELSE NoPath

\* ------------------------------------------------- contribution estimator
RECURSIVE ProductOf(_, _)
\* fold(1.0, |a, b| a * b) over the values f(v) of the vertices
ProductOf(values, acc) ==
  IF values = << >> THEN acc ELSE ProductOf(Tail(values), RMul(acc, Head(values)))

\* Path::pdf
PathPdf(path) ==
  ProductOf([i \in DOMAIN path.vertices |-> UnwrapOr(path.vertices[i].forward_pdf, One)], One)

\* Path::throughput
PathThroughput(path) ==
  ProductOf([i \in DOMAIN path.vertices |-> path.vertices[i].throughput], One)

\* Vertex::weight
VertexWeight(v) ==
  IF ~IsSome(v.forward_pdf) /\ ~IsSome(v.reverse_pdf) THEN None
  ELSE IF REq(UnwrapOr(v.forward_pdf, One), Zero) THEN None
  ELSE RDiv(UnwrapOr(v.reverse_pdf, One), UnwrapOr(v.forward_pdf, One))

RECURSIVE WeightWalk(_, _)
\* one of the two loops of Path::weight over the vertices vs, in order
WeightWalk(vs, acc) ==
  IF vs = << >> THEN acc
  ELSE LET w == VertexWeight(Head(vs))
       IN WeightWalk(Tail(vs),
            IF IsSome(w)
            THEN [product |-> RMul(acc.product, w),
                  sum |-> RAdd(acc.sum, RMul(acc.product, w))]
            ELSE acc)

Reversed(s) == [i \in 1..Len(s) |-> s[Len(s) + 1 - i]]

\* the sum Path::weight accumulates over both halves
WeightSum(path) ==
  LET cam == WeightWalk(Reversed(SubSeq(path.vertices, 1, path.camera)),
                        [product |-> One, sum |-> Zero])
      lit == IF path.light >= 1
             THEN WeightWalk(SubSeq(path.vertices, path.camera + 1, Len(path.vertices)),
                             [product |-> One, sum |-> cam.sum])
             ELSE cam
  IN lit.sum

\* Path::weight
PathWeight(path) == RDiv(One, RAdd(One, WeightSum(path)))

\* RgbSpectrum::luminance of a gray spectrum of level c
Luminance(c) == RMul(c, R(212671 + 715160 + 72169, 1000000))

\* Contribution::empty
Empty == [scalar |-> Zero, spectrum |-> Zero, pixel_coordinates |-> 0]

\* Contribution::is_empty
IsEmpty(c) == REq(c.scalar, Zero)

ContributionUnguarded(pdf, throughput, weight, pixel_coordinates) ==
  LET c == RDiv(RMul(throughput, weight), pdf)
  IN [scalar |-> Luminance(c), spectrum |-> c,
      pixel_coordinates |-> pixel_coordinates]

\* the body of Path::contribution, given what pdf(), throughput() and
\* weight() return for the path
ContributionFrom(pdf, throughput, weight, pixel_coordinates) ==
  IF REq(pdf, Zero) THEN Empty
  ELSE IF REq(throughput, Zero) THEN Empty
  ELSE IF REq(weight, Zero) THEN Empty
  ELSE LET c == RDiv(RMul(throughput, weight), pdf)
       IN [scalar |-> Luminance(c), spectrum |-> c,
           pixel_coordinates |-> pixel_coordinates]

\* Path::contribution
Contribution(path) ==
  ContributionFrom(PathPdf(path), PathThroughput(path), PathWeight(path),
                   path.pixel_coordinates)

\* -------------------------------------------------------- Path::generate
\* A scene is the set of interactions each capability can return: the camera
\* interactions (sampled or intersected), the light interactions, the object
\* hits.
Scene(cameras, lights, objects) ==
  [cameras |-> cameras, lights |-> lights, objects |-> objects]

\* Scene::intersect finds nothing
Miss == [CameraInteraction(0, One) EXCEPT !.kind = "Miss", !.id = "none"]

\* the outcomes of Scene::intersect
IntersectOutcomes(scene) ==
  {Miss} \cup scene.cameras \cup scene.lights \cup scene.objects

\* one sample() of a scene capability.  What the drawn value decides is the
\* outcome of the capability, chosen freely here, so the generator outputs
\* are fixed: 0.0 for pushed, caught-up and large-step values, a small-step
\* displacement of zero
SceneDraw(s) == Sample(s, [j \in 1..Missing(s) |-> 0], 0, 0)

RECURSIVE SceneDraws(_, _)
SceneDraws(s, n) == IF n = 0 THEN s ELSE SceneDraws(SceneDraw(s), n - 1)

\* the draws of Bsdf::sample_direction: one to choose the bxdf, then two of
\* the diffuse, none of the specular and one of the dielectric bxdf
DirectionDraws(it) ==
  1 + (IF it.id = "matte" THEN 2 ELSE IF it.id = "glass" THEN 1 ELSE 0)

GenerateRayFromAny(it, s) == {[smp |-> s, ok |-> TRUE]}

\* Interaction::generate_ray: None for a camera or a light, for an object
\* what its bxdf returns (the dielectric's refraction can be None)
GenerateRayOutcomes(it, s) ==
  IF ~IsObject(it) THEN {[smp |-> s, ok |-> FALSE]}
  ELSE LET s1 == SceneDraws(s, DirectionDraws(it))
       IN IF it.id = "glass"
          THEN {[smp |-> s1, ok |-> TRUE], [smp |-> s1, ok |-> FALSE]}
          ELSE {[smp |-> s1, ok |-> TRUE]}

\* push_back for a camera trace, push_front for a light trace
Push(stack, it, path_type) ==
  IF path_type = "Camera" THEN Append(stack, it) ELSE <<it>> \o stack

\* Path::trace returns None; hits are the interactions Scene::intersect had
\* returned, the one that ended the trace last
NoTrace(s, hits) == [smp |-> s, ok |-> FALSE, stack |-> << >>, hits |-> hits]

RECURSIVE TraceFrom(_, _, _, _, _, _)
\* the loop of Path::trace with remaining iterations to go
TraceFrom(scene, s, stack, hits, remaining, path_type) ==
  IF remaining <= 0
  THEN {[smp |-> s, ok |-> TRUE, stack |-> stack, hits |-> hits]}
  ELSE UNION {
         IF hit = Miss THEN {NoTrace(s, hits)}
         ELSE UNION {
                IF g.ok
                THEN TraceFrom(scene, g.smp, Push(stack, hit, path_type),
                               Append(hits, hit), remaining - 1, path_type)
                ELSE {NoTrace(g.smp, Append(hits, hit))}
                : g \in GenerateRayOutcomes(hit, s) }
         : hit \in IntersectOutcomes(scene) }

\* Path::trace from a sampled camera or light interaction (initial_ray is Some)
Trace(scene, s, first, length, path_type) ==
  TraceFrom(scene, s, <<first>>, << >>, length - 1, path_type)

\* start_stream(CAMERA_STREAM); scene.camera.sample_interaction (two draws)
SampleCamera(s) == SceneDraws(StartStream(s, CAMERA_STREAM), 2)

SampleLightRestarts(s) ==
  SceneDraws(StartStream(SceneDraws(StartStream(s, LIGHT_STREAM), 1),
                         LIGHT_STREAM), 4)

\* start_stream(LIGHT_STREAM); scene.sample_light (one draw);
\* light.sample_interaction (two draws of the shape, two of the hemisphere)
SampleLight(s) == SceneDraws(SceneDraws(StartStream(s, LIGHT_STREAM), 1), 4)

Generated(s, path) == [smp |-> s, path |-> path, panicked |-> FALSE]

\* Path::generate does not return: a panic inside it
Aborted(s) == [smp |-> s, path |-> NoPath, panicked |-> TRUE]

\* the streams the strategies start
StrategyStreams == {CAMERA_STREAM, LIGHT_STREAM}

\* Path::connect_camera_to_light once the visibility ray from the light
\* interaction l has returned hit
CameraToLightOf(s, hit, l, technique) ==
  IF IsCamera(hit)
  THEN Generated(s, Connect(<<hit, l>>, technique))
  ELSE Generated(s, NoPath)

\* Path::connect_camera_to_light
ConnectCameraToLight(scene, s, technique) ==
  LET s2 == SampleLight(SampleCamera(s))
  IN UNION { { CameraToLightOf(s2, hit, l, technique)
               : hit \in IntersectOutcomes(scene) }
             : l \in scene.lights }

\* Path::connect_full_light_path
ConnectFullLightPath(scene, s, technique) ==
  UNION { { IF tr.ok /\ IsCamera(Head(tr.stack))
            THEN Generated(tr.smp, Connect(tr.stack, technique))
            ELSE Generated(tr.smp, NoPath)
            : tr \in Trace(scene, SampleLight(s), l, technique.light, "Light") }
          : l \in scene.lights }

\* Path::connect_full_camera_path once Path::trace has returned tr
FullCameraPathOf(tr, technique) ==
  IF tr.ok /\ IsLight(tr.stack[Len(tr.stack)])
  THEN Generated(tr.smp, Connect(tr.stack, technique))
  ELSE Generated(tr.smp, NoPath)

\* Path::connect_full_camera_path
ConnectFullCameraPath(scene, s, technique) ==
  UNION { { FullCameraPathOf(tr, technique)
            : tr \in Trace(scene, SampleCamera(s), c, technique.camera, "Camera") }
          : c \in scene.cameras }

CameraToLightSubpathUnchecked(tr, hit, technique) ==
  Generated(SampleCamera(tr.smp),
            Connect(<<CameraInteraction(0, One)>> \o tr.stack, technique))

\* Path::connect_camera_to_light_subpath once the light trace tr has ended
\* on an object and the visibility ray from it has returned hit
CameraToLightSubpathOf(tr, hit, technique) ==
  IF IsCamera(hit)
  THEN Generated(SampleCamera(tr.smp), Connect(<<hit>> \o tr.stack, technique))
  ELSE Generated(SampleCamera(tr.smp), NoPath)

\* Path::connect_camera_to_light_subpath
ConnectCameraToLightSubpath(scene, s, technique) ==
  UNION { UNION {
            IF tr.ok /\ IsObject(Head(tr.stack))
            THEN { CameraToLightSubpathOf(tr, hit, technique)
                   : hit \in IntersectOutcomes(scene) }
            ELSE {Generated(tr.smp, NoPath)}
            : tr \in Trace(scene, SampleLight(s), l, technique.light, "Light") }
          : l \in scene.lights }

\* Path::connect_camera_subpath_to_light
ConnectCameraSubpathToLight(scene, s, technique) ==
  UNION { UNION {
            IF tr.ok /\ IsObject(tr.stack[Len(tr.stack)])
            THEN { IF IsLight(hit)
                   THEN Generated(SampleLight(tr.smp),
                                  Connect(Append(tr.stack, hit), technique))
                   ELSE Generated(SampleLight(tr.smp), NoPath)
                   : hit \in IntersectOutcomes(scene) }
            ELSE {Generated(tr.smp, NoPath)}
            : tr \in Trace(scene, SampleCamera(s), c, technique.camera, "Camera") }
          : c \in scene.cameras }

SubpathsJoinedUnchecked(ct, lt, hit, technique) ==
  Generated(lt.smp, Connect(ct.stack \o lt.stack, technique))

\* Path::connect_camera_subpath_to_light_subpath once both traces have ended
\* on objects and the ray from the camera subpath's last vertex towards the
\* light subpath's last vertex has returned hit
SubpathsJoinedOf(ct, lt, hit, technique) ==
  IF hit # Miss /\ hit.id = Head(lt.stack).id
  THEN Generated(lt.smp, Connect(ct.stack \o lt.stack, technique))
  ELSE Generated(lt.smp, NoPath)

\* Path::connect_camera_subpath_to_light_subpath
ConnectCameraSubpathToLightSubpath(scene, s, technique) ==
  UNION { UNION {
            IF ~ct.ok THEN {Generated(ct.smp, NoPath)}
            ELSE UNION { UNION {
                   IF ~lt.ok THEN {Generated(lt.smp, NoPath)}
                   ELSE IF ~IsObject(ct.stack[Len(ct.stack)]) \/ ~IsObject(Head(lt.stack))
                        THEN {Generated(lt.smp, NoPath)}
                        ELSE { SubpathsJoinedOf(ct, lt, hit, technique)
                               : hit \in IntersectOutcomes(scene) }
                   : lt \in Trace(scene, SampleLight(ct.smp), l, technique.light, "Light") }
                 : l \in scene.lights }
            : ct \in Trace(scene, SampleCamera(s), c, technique.camera, "Camera") }
          : c \in scene.cameras }

\* the dispatch of Path::generate on the technique: the strategy it calls
StrategyName(technique) ==
  IF technique.camera = 0 THEN "connect_full_light_path"
  ELSE IF technique.camera = 1
       THEN IF technique.light = 1 THEN "connect_camera_to_light"
            ELSE "connect_camera_to_light_subpath"
       ELSE IF technique.light = 0 THEN "connect_full_camera_path"
            ELSE IF technique.light = 1 THEN "connect_camera_subpath_to_light"
                 ELSE "connect_camera_subpath_to_light_subpath"

\* the strategy Path::generate calls for the technique, on sampler s
Strategy(scene, s, technique) ==
  LET name == StrategyName(technique)
  IN IF \E i \in StrategyStreams : StartStreamPanics(i) THEN {Aborted(s)}
     ELSE IF name = "connect_full_light_path"
          THEN ConnectFullLightPath(scene, s, technique)
     ELSE IF name = "connect_camera_to_light"
          THEN ConnectCameraToLight(scene, s, technique)
     ELSE IF name = "connect_camera_to_light_subpath"
          THEN ConnectCameraToLightSubpath(scene, s, technique)
     ELSE IF name = "connect_full_camera_path"
          THEN ConnectFullCameraPath(scene, s, technique)
     ELSE IF name = "connect_camera_subpath_to_light"
          THEN ConnectCameraSubpathToLight(scene, s, technique)
     ELSE ConnectCameraSubpathToLightSubpath(scene, s, technique)

\* the camera counts Technique::sample computes for the values of the cell v
\* of the unit interval: floor(1 + u * path_length), v/Grid <= u < (v+1)/Grid
CellCameras(path_length, v) ==
  LET lo == TechniqueCamera(path_length, R(v, Grid))
      top == (v + 1) * path_length
      hi == IF path_length > 0 /\ top % Grid = 0
            THEN top \div Grid
            ELSE TechniqueCamera(path_length, R(v + 1, Grid))
  IN lo..hi

\* every camera count Technique::sample can return for path_length, the
\* sampler's value being anywhere in [0, 1)
TechniqueCameras(path_length) ==
  UNION { CellCameras(path_length, v) : v \in Vals }

\* Technique::sample on a sampler coordinate, which is known by its cell
TechniqueSampleCell(path_length, v) ==
  UNION { TechniqueOf(path_length, camera) : camera \in CellCameras(path_length, v) }

\* Path::generate: start_stream(TECHNIQUE_STREAM), Technique::sample on the
\* coordinate the sampler returns, the strategy.  An underflow of
\* Technique::sample ends the call: by the panic, or, wrapped, by a trace of
\* 2^64 steps
Generate(scene, s, path_length) ==
  IF StartStreamPanics(TECHNIQUE_STREAM) THEN {Aborted(s)}
  ELSE UNION { UNION { IF technique.panicked \/ technique.wrapped
                       THEN {Aborted(s1)}
                       ELSE Strategy(scene, s1, technique)
                       : technique \in TechniqueSampleCell(path_length, Drawn(s1)) }
               : s1 \in SampleOutcomes(StartStream(s, TECHNIQUE_STREAM), Vals) }

\* what Path::contribute leaves of a generation g: the sampler, the path, and
\* the Contribution with the pdf, throughput and weight it was computed from
Estimated(g, pdf, throughput, weight) ==
  [smp |-> g.smp, path |-> g.path, panicked |-> g.panicked,
   pdf |-> pdf, throughput |-> throughput, weight |-> weight,
   contribution |-> ContributionFrom(pdf, throughput, weight,
                                     g.path.pixel_coordinates)]

\* Path::contribute: Path::generate, then Path::contribution of the path or
\* the empty Contribution
Contribute(scene, s, path_length) ==
  { IF g.path.ok
    THEN Estimated(g, PathPdf(g.path), PathThroughput(g.path), PathWeight(g.path))
    ELSE [smp |-> g.smp, path |-> g.path, panicked |-> g.panicked,
          pdf |-> Zero, throughput |-> Zero, weight |-> Zero,
          contribution |-> Empty]
    : g \in Generate(scene, s, path_length) }

\* ------------------------------------------------------------------- state
VARIABLES
  smp,       \* the MmltSampler driven by the protocol driver
  aborted,   \* the process has panicked
  phase,     \* "seed" (iteration 0), "proposing" (after mutate), "idle"
  pre,       \* what the last mutate() saw: the counters and one watched slot
  drawn,     \* slots drawn since the last mutate() (or since construction)
  dup,       \* some slot was drawn twice since the last mutate()
  last,      \* the last operation executed
  arg,       \* the argument of the last operation, when it was start_stream
  call,      \* the last call of a pure function: its inputs and its result
  pc,            \* where integrate() is: "bootstrap", "seed", "loop", "done"
  chain,         \* the k whose b[k], samplers[k], contributions[k] are followed
  bi,            \* the passes of the inner bootstrap loop made for b[chain]
  b,             \* b[chain]
  rest,          \* the sum of the other b[k], fixed when Pdf::new runs
  sampler,       \* samplers[chain]
  current,       \* contributions[chain]
  sample_count,
  spp,
  gen,           \* the last Path::contribute: its path and its result
  it,            \* the last iteration of the run loop that selected chain
  consumed,      \* history: the coordinates contributions[chain] was made from
  panicked       \* integrate() has aborted

\* the variables of the function calls
fnvars == <<call>>

\* the variables of the integrator
runvars ==
  <<pc, chain, bi, b, rest, sampler, current, sample_count, spp, gen, it,
    consumed, panicked>>

vars == <<smp, aborted, phase, pre, drawn, dup, last, arg, fnvars, runvars>>

NoTechnique == [camera |-> 0, light |-> 0, panicked |-> FALSE, wrapped |-> FALSE]

\* no call made yet
NoCall ==
  [op |-> "none", current |-> Zero, proposal |-> Zero, a |-> Zero,
   path_length |-> 0, u |-> Zero, technique |-> NoTechnique,
   interactions |-> << >>, path |-> NoPath, contribution |-> Empty,
   pdf |-> Zero, throughput |-> Zero, weight |-> Zero,
   k |-> 0, b |-> << >>, samplers |-> << >>, contributions |-> << >>,
   b_after |-> << >>, samplers_after |-> << >>, contributions_after |-> << >>,
   h |-> << >>, pdf_values |-> << >>, cdf |-> << >>,
   stream |-> 0, j |-> 0, before |-> NewSampler, after |-> NewSampler,
   result |-> 0, strategy |-> "none", ray_cast |-> FALSE, hit |-> Miss,
   ends |-> << >>, stack |-> << >>]

\* the record kept in pre: the sampler s as mutate() finds it, the kind the
\* draw u selects, and the coordinate of slot w (when it exists)
Snapshot(s, u, w) ==
  [iteration |-> s.iteration, large_step_at |-> s.large_step_at,
   large |-> IsLargeDraw(u), slot |-> w, exists |-> w < Len(s.samples),
   value |-> IF w < Len(s.samples) THEN s.samples[w + 1].value ELSE 0,
   modified_at |-> IF w < Len(s.samples) THEN s.samples[w + 1].modified_at ELSE 0]

InitSampler ==
  /\ smp = NewSampler
  /\ aborted = FALSE
  /\ phase = "seed"
  /\ pre = Snapshot(NewSampler, Grid, 0)
  /\ drawn = {}
  /\ dup = FALSE
  /\ last = "new"
  /\ arg = 0

\* ------------------------------------------------------------ integrator
\* integrate() is followed on one k of its vectors b, samplers and
\* contributions: the bootstrap passes for b[k], the seeding pass for k and
\* the iterations of the run loop, those that select k and those that do not.
\* Of the other k the model keeps what reaches this one: the sum of their
\* b[k], which Pdf::new divides by.  The pixels of the Image are not kept:
\* each iteration records the calls of Image::contribute it makes.

\* the k of integrate() and the path length k + 2 of each
Ks == 0..(MaxPathLength - 2)
LengthOf(k) == k + 2

\* the sum of the other b[k]: none of them when k is alone, else their
\* bootstraps all failed or found light
RestSums == IF MaxPathLength = 2 THEN {Zero} ELSE {Zero, One}

\* Pdf::new then Pdf::value(k): h[k] / cdf[last], the sum of all h
PdfValue(bk, others) == RDiv(bk, RAdd(bk, others))

\* the weight of a deposit of contribution c in the run loop, factor being
\* a + step_factor for the proposal and 1 - a for the current contribution
DepositWeight(k, bk, others, c, factor) ==
  RDiv(RMul(RDiv(R(LengthOf(k), 1), PdfValue(bk, others)), factor),
       RAdd(RDiv(c.scalar, bk), R(LargeStepNum, LargeStepDen)))

DecideStrict(r, a) == RLt(r, a)

\* the test of the run loop: rng.gen_range(0.0..1.0) <= a
Decide(r, a) == RLe(r, a)

\* what gen records of a Path::contribute
GenOf(where, g) ==
  [phase |-> where, ok |-> g.path.ok, panicked |-> g.panicked,
   pdf |-> g.pdf, throughput |-> g.throughput, weight |-> g.weight,
   contribution |-> g.contribution]

\* the coordinates a Path::contribute that left the sampler s has consumed:
\* the slots sample() addressed and the value each returned
ConsumedBy(s) == { <<i, s.samples[i + 1].value>> : i \in s.drawn }

NoGen ==
  [phase |-> "none", ok |-> FALSE, panicked |-> FALSE, pdf |-> Zero,
   throughput |-> Zero, weight |-> Zero, contribution |-> Empty]

NoIteration ==
  [mutation_type |-> "none", generated |-> NewSampler, current |-> Empty,
   proposal |-> Empty, a |-> Zero, r |-> Zero, accepted |-> FALSE, accepts |-> 0,
   deposits |-> << >>]

\* the scene integrate() renders: a light seen along its surface
\* (directional_pdf 0) or not, and a glass
RunScene ==
  Scene(Cameras,
        { LightInteraction(One, R(1, 2)), LightInteraction(One, Zero) },
        { ObjectInteraction("glass", One, R(1, 2), None) })

\* integrate() up to its first loop
InitRun ==
  /\ pc = "bootstrap"
  /\ chain = 0
  /\ bi = 0
  /\ b = Zero
  /\ rest = Zero
  /\ sampler = NewSampler
  /\ current = Empty
  /\ sample_count = 0
  /\ spp = 0
  /\ gen = NoGen
  /\ it = NoIteration
  /\ consumed = {}
  /\ panicked = FALSE

Init == InitSampler /\ call = NoCall /\ InitRun

\* start_stream(index), index possibly out of range
DoStartStream ==
  /\ ~aborted
  /\ phase \in {"seed", "proposing"}
  /\ \E index \in 0..STREAM_COUNT :
       /\ arg' = index
       /\ IF StartStreamPanics(index)
          THEN /\ aborted' = TRUE
               /\ smp' = smp
          ELSE /\ aborted' = FALSE
               /\ smp' = StartStream(smp, index)
  /\ last' = "start_stream"
  /\ UNCHANGED <<phase, pre, drawn, dup>>
  /\ UNCHANGED <<fnvars, runvars>>

\* sample(range)
DoSample ==
  /\ ~aborted
  /\ phase \in {"seed", "proposing"}
  /\ SlotIndex(smp) < MaxSlots
  /\ ~dup
  /\ smp' \in SampleOutcomes(smp, Vals)
  /\ drawn' = drawn \cup {SlotIndex(smp)}
  /\ dup' = (SlotIndex(smp) \in drawn)
  /\ last' = "sample"
  /\ arg' = 0
  /\ UNCHANGED <<aborted, phase, pre>>
  /\ UNCHANGED <<fnvars, runvars>>

\* mutate()
DoMutate ==
  /\ ~aborted
  /\ phase \in {"seed", "idle"}
  /\ smp.iteration < MaxIter
  /\ \E u \in Vals, w \in 0..(MaxSlots - 1) :
       /\ smp' = Mutate(smp, u)
       /\ pre' = Snapshot(smp, u, w)
  /\ drawn' = {}
  /\ dup' = FALSE
  /\ phase' = "proposing"
  /\ last' = "mutate"
  /\ arg' = 0
  /\ UNCHANGED aborted
  /\ UNCHANGED <<fnvars, runvars>>

\* accept()
DoAccept ==
  /\ ~aborted
  /\ phase = "proposing"
  /\ smp' = Accept(smp)
  /\ phase' = "idle"
  /\ last' = "accept"
  /\ arg' = 0
  /\ UNCHANGED <<aborted, pre, drawn, dup>>
  /\ UNCHANGED <<fnvars, runvars>>

\* reject(): iteration - 1 on a u64 panics (debug build) when iteration is 0
DoReject ==
  /\ ~aborted
  /\ phase = "proposing"
  /\ IF smp.iteration = 0
     THEN /\ aborted' = TRUE
          /\ smp' = smp
     ELSE /\ aborted' = FALSE
          /\ smp' = Reject(smp)
  /\ phase' = "idle"
  /\ last' = "reject"
  /\ arg' = 0
  /\ UNCHANGED <<pre, drawn, dup>>
  /\ UNCHANGED <<fnvars, runvars>>

Next == DoStartStream \/ DoSample \/ DoMutate \/ DoAccept \/ DoReject

Spec == Init /\ [][Next]_vars

\* --------------------------------------------------- the functions, called
\* the variables of the sampler protocol
smpvars == <<smp, aborted, phase, pre, drawn, dup, last, arg>>

MaxFnPathLength == 4

\* scalars of contributions: zero, positive, negative, infinite and NaN
Scalars ==
  {Zero, R(1, 20), R(1, 10), R(1, 2), One, R(2, 1), R(-1, 1), Inf, NaN}

\* values a sampler returns for the range 0.0..1.0
UnitInputs == {Zero, R(1, 4), R(1, 2), R(3, 4), R(99, 100)}

\* the interaction lists the connect_* strategies hand to Path::connect: the
\* camera, the object hits of the traces, the light
PathsOfLength(n) ==
  { <<c>> \o objs \o <<l>> :
      c \in Cameras, objs \in [1..(n - 2) -> Objects], l \in Lights }

\* Contribution::acceptance(current, proposal)
FnAcceptance ==
  /\ call.op = "none"
  /\ \E c \in Scalars, p \in Scalars :
       call' = [NoCall EXCEPT !.op = "acceptance", !.current = c,
                              !.proposal = p, !.a = Acceptance(c, p)]
  /\ UNCHANGED <<smpvars, runvars>>

\* Technique::sample(path_length, sampler), the sampler returning u
FnTechnique ==
  /\ call.op = "none"
  /\ \E n \in 0..MaxFnPathLength, u \in UnitInputs :
       \E t \in TechniqueSample(n, u) :
         call' = [NoCall EXCEPT !.op = "technique", !.path_length = n,
                                !.u = u, !.technique = t]
  /\ UNCHANGED <<smpvars, runvars>>

\* Path::connect(interactions, technique) and, on Some(path), its contribution()
FnPath ==
  /\ call.op = "none"
  /\ \E n \in 2..MaxFnPathLength :
       \E ints \in PathsOfLength(n), camera \in 1..(n - 1) :
         LET technique == [camera |-> camera, light |-> n - camera,
                           panicked |-> FALSE, wrapped |-> FALSE]
             path == Connect(ints, technique)
         IN call' = [NoCall EXCEPT !.op = "path", !.path_length = n,
                                   !.technique = technique,
                                   !.interactions = ints, !.path = path,
                                   !.contribution =
                                      IF path.ok THEN Contribution(path) ELSE Empty]
  /\ UNCHANGED <<smpvars, runvars>>

\* what pdf(), throughput() and weight() can return: zero, finite, infinite
\* (a density at a grazing direction) and NaN (0 * inf, inf / inf)
Estimates == {Zero, R(1, 2), One, Inf, NaN}

\* Path::contribution on a path whose pdf(), throughput() and weight() return
\* p, t and w
FnContribution ==
  /\ call.op = "none"
  /\ \E p \in Estimates, t \in Estimates, w \in Estimates :
       call' = [NoCall EXCEPT !.op = "contribution", !.pdf = p,
                              !.throughput = t, !.weight = w,
                              !.contribution = ContributionFrom(p, t, w, 0)]
  /\ UNCHANGED <<smpvars, runvars>>

\* what the seeding loop of integrate() leaves for k: the sampler after
\* Path::contribute on a fresh sampler, and the contribution
Seeded(k) ==
  {g \in Contribute(RunScene, NewSampler, LengthOf(k)) : ~g.panicked}

\* the vectors of integrate() when its run loop selects k: every chain
\* seeded, the chains that are not selected with a path that carries light
RECURSIVE SeededChains(_, _)
SeededChains(k, n) ==
  IF n < 0 THEN {<< >>}
  ELSE {[j \in 0..n |-> IF j = n THEN g ELSE f[j]] :
          f \in SeededChains(k, n - 1),
          g \in IF n = k THEN Seeded(n)
                ELSE {x \in Seeded(n) : ~IsEmpty(x.contribution)}}

StoreAll(vec, k, v) == [j \in DOMAIN vec |-> v]

\* samplers[k] and contributions[k] of integrate(): the element at k is the
\* one that is borrowed and assigned
Store(vec, k, v) == [vec EXCEPT ![k] = v]

\* one iteration of the run loop on the vectors b, samplers and
\* contributions, pdf.sample having selected k
FnIterate ==
  /\ call.op = "none"
  /\ \E k \in Ks : \E seeds \in SeededChains(k, MaxPathLength - 2) :
       LET bs == [j \in Ks |-> seeds[j].contribution.scalar]
           samplers == [j \in Ks |-> seeds[j].smp]
           contributions == [j \in Ks |-> seeds[j].contribution]
       IN \E u \in Vals, r \in Vals :
          \E g \in Contribute(RunScene, Mutate(samplers[k], u), LengthOf(k)) :
            LET proposal == g.contribution
                a == Acceptance(contributions[k].scalar, proposal.scalar)
                accepted == Decide(R(r, Grid), a)
            IN /\ ~g.panicked
               /\ call' = [NoCall EXCEPT
                     !.op = "iterate", !.k = k, !.a = a,
                     !.current = contributions[k].scalar,
                     !.proposal = proposal.scalar,
                     !.b = bs, !.samplers = samplers,
                     !.contributions = contributions,
                     !.b_after = bs,
                     !.samplers_after =
                        Store(samplers, k,
                              IF accepted THEN Accept(g.smp) ELSE Reject(g.smp)),
                     !.contributions_after =
                        IF accepted THEN Store(contributions, k, proposal)
                        ELSE contributions]
  /\ UNCHANGED <<smpvars, runvars>>

\* ---------------------------------------------------------------- Pdf::new
\* the vectors h that Pdf::new is given: up to MaxWeights entries, each a
\* whole number up to MaxWeight, and the vector of its unit test
MaxWeights == 3
MaxWeight == 2
TestWeights == <<10, 20, 50, 15, 5>>
WeightVectors ==
  UNION {[1..n -> 0..MaxWeight] : n \in 1..MaxWeights} \cup {TestWeights}

\* the first loop of Pdf::new, from k on: cdf[k] = cdf[k - 1] + h[k]
RECURSIVE Accumulate(_, _, _)
Accumulate(h, cdf, k) ==
  IF k > Len(h) THEN cdf
  ELSE Accumulate(h, [cdf EXCEPT ![k] = RAdd(cdf[k - 1], h[k])], k + 1)

RECURSIVE NormaliseCdfFirst(_, _, _, _)
NormaliseCdfFirst(h, pdf, cdf, k) ==
  IF k > Len(h) THEN [pdf |-> pdf, cdf |-> cdf]
  ELSE LET scaled == [cdf EXCEPT ![k] = RDiv(cdf[k], cdf[Len(cdf)])]
       IN NormaliseCdfFirst(h,
            [pdf EXCEPT ![k] = RDiv(h[k], scaled[Len(scaled)])], scaled, k + 1)

\* the second loop of Pdf::new, from k on: pdf[k] = h[k] / cdf[last], then
\* cdf[k] = cdf[k] / cdf[last], cdf[last] being read as it is at that moment
RECURSIVE Normalise(_, _, _, _)
Normalise(h, pdf, cdf, k) ==
  IF k > Len(h) THEN [pdf |-> pdf, cdf |-> cdf]
  ELSE Normalise(h,
         [pdf EXCEPT ![k] = RDiv(h[k], cdf[Len(cdf)])],
         [cdf EXCEPT ![k] = RDiv(cdf[k], cdf[Len(cdf)])], k + 1)

\* Pdf::new(h), h a vector of f64 with at least one entry
PdfNew(h) ==
  LET zeros == [k \in 1..Len(h) |-> Zero]
  IN Normalise(h, zeros, Accumulate(h, [zeros EXCEPT ![1] = h[1]], 2), 1)

\* Pdf::new on a vector of whole numbers, value(i) being pdf_values[i + 1]
FnPdf ==
  /\ call.op = "none"
  /\ \E w \in WeightVectors :
       LET h == [k \in 1..Len(w) |-> R(w[k], 1)]
           made == PdfNew(h)
       IN call' = [NoCall EXCEPT !.op = "pdf", !.h = h,
                                 !.pdf_values = made.pdf, !.cdf = made.cdf]
  /\ UNCHANGED <<smpvars, runvars>>

\* the loop of Pdf::sample from k on (0-based): the first k with
\* r <= cdf[k], and 0 when the loop ends without one
RECURSIVE PdfSampleFrom(_, _, _)
PdfSampleFrom(cdf, r, k) ==
  IF k >= Len(cdf) THEN 0
  ELSE IF RLe(r, cdf[k + 1]) THEN k
  ELSE PdfSampleFrom(cdf, r, k + 1)

\* Pdf::sample, r the value rng.gen_range(0.0..1.0) returns
PdfSample(made, r) == PdfSampleFrom(made.cdf, r, 0)

\* Pdf::new on a vector of whole numbers, then Pdf::sample
FnPdfSample ==
  /\ call.op = "none"
  /\ \E w \in WeightVectors, r \in UnitInputs :
       LET h == [k \in 1..Len(w) |-> R(w[k], 1)]
           made == PdfNew(h)
       IN call' = [NoCall EXCEPT !.op = "pdf_sample", !.h = h, !.u = r,
                                 !.pdf_values = made.pdf, !.cdf = made.cdf,
                                 !.result = PdfSample(made, r)]
  /\ UNCHANGED <<smpvars, runvars>>

\* ------------------------------------------------- draws in two streams
\* the draws made in one stream before the one that is observed
MaxDraws == 2

\* sample() when every call of the generator returns v
SampleWith(s, v) == Sample(s, [i \in 1..Missing(s) |-> v], v, v)

\* n calls of sample(), the generator returning v
RECURSIVE SampleTimes(_, _, _)
SampleTimes(s, n, v) ==
  IF n = 0 THEN s ELSE SampleTimes(SampleWith(s, v), n - 1, v)

\* a fresh sampler draws na coordinates of stream sa; after mutate(),
\* start_stream(sb) and nb draws, the draw number nb of stream sb is made
FnDraw ==
  /\ call.op = "none"
  /\ \E sa \in 0..(STREAM_COUNT - 1), sb \in 0..(STREAM_COUNT - 1),
        na \in 0..MaxDraws, nb \in 0..MaxDraws, u \in Vals, v \in Vals :
       LET seeded == SampleTimes(StartStream(NewSampler, sa), na, v)
           before == SampleTimes(StartStream(Mutate(seeded, u), sb), nb, v)
           after == SampleWith(before, v)
       IN call' = [NoCall EXCEPT
                     !.op = "draw", !.stream = sb, !.j = nb,
                     !.before = before, !.after = after,
                     !.result = after.samples[SlotIndex(before) + 1].value]
  /\ UNCHANGED <<smpvars, runvars>>

\* Path::connect_full_camera_path for the technique (k, 0) on a fresh
\* sampler, with the interactions Scene::intersect returned to Path::trace
FnFullCameraPath ==
  /\ call.op = "none"
  /\ \E k \in 2..MaxFnPathLength, c \in Cameras :
       LET technique == [camera |-> k, light |-> 0,
                         panicked |-> FALSE, wrapped |-> FALSE]
       IN \E tr \in Trace(Scene(Cameras, Lights, Objects),
                           SampleCamera(NewSampler), c, k, "Camera") :
            call' = [NoCall EXCEPT
                       !.op = "full_camera_path", !.path_length = k,
                       !.technique = technique, !.interactions = tr.hits,
                       !.stack = tr.stack,
                       !.path = FullCameraPathOf(tr, technique).path]
  /\ UNCHANGED <<smpvars, runvars>>

\* the dispatch of Path::generate for a technique (camera, light) of the
\* shape Technique::sample builds: light = path_length - camera
FnDispatch ==
  /\ call.op = "none"
  /\ \E n \in 0..MaxFnPathLength, camera \in 0..MaxFnPathLength :
       /\ camera <= n
       /\ LET technique == [camera |-> camera, light |-> n - camera,
                            panicked |-> FALSE, wrapped |-> FALSE]
          IN call' = [NoCall EXCEPT !.op = "dispatch", !.path_length = n,
                                    !.technique = technique,
                                    !.strategy = StrategyName(technique)]
  /\ UNCHANGED <<smpvars, runvars>>

\* the scene of the strategies that are called one by one
FnScene == Scene(Cameras, Lights, Objects)

\* the strategies of the techniques (1, k), k >= 1, on a fresh sampler, with
\* the interaction the visibility ray towards the camera point returned
FnCameraConnection ==
  /\ call.op = "none"
  /\ \E k \in 1..(MaxFnPathLength - 1), l \in Lights,
        hit \in IntersectOutcomes(FnScene) :
       LET technique == [camera |-> 1, light |-> k,
                         panicked |-> FALSE, wrapped |-> FALSE]
           made(cast, ends, g) ==
             [NoCall EXCEPT !.op = "camera_connection",
                            !.path_length = k + 1, !.technique = technique,
                            !.strategy = StrategyName(technique),
                            !.ray_cast = cast,
                            !.hit = IF cast THEN hit ELSE Miss,
                            !.ends = ends, !.path = g.path]
       IN IF k = 1
          THEN call' = made(TRUE, <<l>>,
                            CameraToLightOf(SampleLight(SampleCamera(NewSampler)),
                                            hit, l, technique))
          ELSE \E tr \in Trace(FnScene, SampleLight(NewSampler), l, k, "Light") :
                 call' = IF tr.ok /\ IsObject(Head(tr.stack))
                         THEN made(TRUE, <<Head(tr.stack)>>,
                                   CameraToLightSubpathOf(tr, hit, technique))
                         ELSE made(FALSE, << >>, Generated(tr.smp, NoPath))
  /\ UNCHANGED <<smpvars, runvars>>

\* the strategy of the techniques (camera, light), both 2 or more, on a
\* fresh sampler, with the last vertices of the two traces and the
\* interaction the ray between them returned
FnSubpathConnection ==
  /\ call.op = "none"
  /\ \E n \in 4..MaxFnPathLength, camera \in 2..MaxFnPathLength :
       /\ n - camera >= 2
       /\ \E c \in Cameras, l \in Lights, hit \in IntersectOutcomes(FnScene) :
          \E ct \in Trace(FnScene, SampleCamera(NewSampler), c, camera, "Camera") :
            LET technique == [camera |-> camera, light |-> n - camera,
                              panicked |-> FALSE, wrapped |-> FALSE]
                made(cast, ends, g) ==
                  [NoCall EXCEPT !.op = "subpath_connection",
                                 !.path_length = n, !.technique = technique,
                                 !.strategy = StrategyName(technique),
                                 !.ray_cast = cast,
                                 !.hit = IF cast THEN hit ELSE Miss,
                                 !.ends = ends, !.path = g.path]
            IN IF ~ct.ok
               THEN call' = made(FALSE, << >>, Generated(ct.smp, NoPath))
               ELSE \E lt \in Trace(FnScene, SampleLight(ct.smp), l,
                                     n - camera, "Light") :
                      call' =
                        IF ~lt.ok
                        THEN made(FALSE, << >>, Generated(lt.smp, NoPath))
                        ELSE IF ~IsObject(ct.stack[Len(ct.stack)])
                                  \/ ~IsObject(Head(lt.stack))
                        THEN made(FALSE,
                                  <<ct.stack[Len(ct.stack)], Head(lt.stack)>>,
                                  Generated(lt.smp, NoPath))
                        ELSE made(TRUE,
                                  <<ct.stack[Len(ct.stack)], Head(lt.stack)>>,
                                  SubpathsJoinedOf(ct, lt, hit, technique))
  /\ UNCHANGED <<smpvars, runvars>>

\* Path::generate(scene, sampler, path_length) on a fresh sampler
FnGenerate ==
  /\ call.op = "none"
  /\ \E n \in 1..MaxFnPathLength :
     \E g \in Generate(FnScene, NewSampler, n) :
       /\ ~g.panicked
       /\ call' = [NoCall EXCEPT !.op = "generate", !.path_length = n,
                                 !.after = g.smp, !.path = g.path]
  /\ UNCHANGED <<smpvars, runvars>>

NextFn ==
  \/ FnAcceptance \/ FnTechnique \/ FnPath \/ FnContribution
  \/ FnPdf \/ FnDraw \/ FnFullCameraPath \/ FnDispatch
  \/ FnCameraConnection \/ FnSubpathConnection \/ FnGenerate
  \/ FnPdfSample

SpecFn == Init /\ [][NextFn]_vars

\* one iteration of the run loop on seeded chains, for each k it can select
NextChains == FnIterate

SpecChains == Init /\ [][NextChains]_vars

\* ------------------------------------------------- MmltIntegrator::integrate
\* one pass of the inner bootstrap loop for the k followed, any k at the
\* first pass: a fresh sampler, Path::contribute, b[k] += scalar; after the
\* last pass b[k] is divided by initial_sample_count and, the other k done,
\* Pdf::new runs
Bootstrap ==
  /\ pc = "bootstrap" /\ ~panicked
  /\ \E k \in (IF bi = 0 THEN Ks ELSE {chain}) :
     \E g \in Contribute(RunScene, NewSampler, LengthOf(k)) :
       /\ chain' = k
       /\ gen' = GenOf("bootstrap", g)
       /\ panicked' = g.panicked
       /\ LET sum == RAdd(b, g.contribution.scalar)
              lastPass == bi + 1 = InitialSampleCount
          IN /\ b' = IF lastPass THEN RDiv(sum, R(InitialSampleCount, 1)) ELSE sum
             /\ bi' = bi + 1
             /\ pc' = IF lastPass /\ ~g.panicked THEN "seed" ELSE "bootstrap"
             /\ IF lastPass THEN rest' \in RestSums ELSE rest' = rest
  /\ UNCHANGED <<sampler, current, sample_count, spp, it, consumed>>
  /\ UNCHANGED <<smpvars, fnvars>>

\* the pass of the seeding loop for k = chain, and the counters of the run loop
Seed ==
  /\ pc = "seed" /\ ~panicked
  /\ \E g \in Contribute(RunScene, NewSampler, LengthOf(chain)) :
       /\ gen' = GenOf("seed", g)
       /\ panicked' = g.panicked
       /\ current' = g.contribution
       /\ sampler' = g.smp
       /\ consumed' = ConsumedBy(g.smp)
       /\ pc' = IF g.panicked THEN "seed" ELSE "loop"
  /\ sample_count' = 0
  /\ spp' = 0
  /\ UNCHANGED <<chain, bi, b, rest, it>>
  /\ UNCHANGED <<smpvars, fnvars>>

\* the calls of Image::contribute of one iteration: the proposal's deposit,
\* then the current contribution's
Deposits(k, bk, others, mutation_type, cur, proposal, a) ==
  LET step_factor == IF mutation_type = "LargeStep" THEN One ELSE Zero
  IN (IF ~IsEmpty(proposal)
      THEN << [of |-> "proposal", scalar |-> proposal.scalar,
               pixel |-> proposal.pixel_coordinates,
               spectrum |-> RMul(proposal.spectrum,
                  DepositWeight(k, bk, others, proposal, RAdd(a, step_factor)))] >>
      ELSE << >>)
     \o
     (IF ~IsEmpty(cur)
      THEN << [of |-> "current", scalar |-> cur.scalar,
               pixel |-> cur.pixel_coordinates,
               spectrum |-> RMul(cur.spectrum,
                  DepositWeight(k, bk, others, cur, RSub(One, a)))] >>
      ELSE << >>)

\* an iteration of the run loop in which pdf.sample selects k = chain: u and
\* r are the values the generator returns to mutate() and to the acceptance
\* test
Iterate ==
  /\ pc = "loop" /\ ~panicked
  /\ spp < AverageSamplesPerPixel
  /\ sample_count < MaxLoop
  /\ spp' = sample_count \div PixelCount
  /\ sample_count' = sample_count + 1
  /\ \E mutated \in {Mutate(sampler, u) : u \in Vals} :
     \E g \in Contribute(RunScene, mutated, LengthOf(chain)) :
       LET proposal == g.contribution
           a == Acceptance(current.scalar, proposal.scalar)
           ds == Deposits(chain, b, rest, mutated.mutation_type, current, proposal, a)
       IN \E r \in Vals :
            LET accepted == Decide(R(r, Grid), a)
            IN /\ gen' = GenOf("loop", g)
               /\ sampler' =
                     IF g.panicked THEN g.smp
                     ELSE IF accepted THEN Accept(g.smp)
                     ELSE IF g.smp.iteration = 0 THEN g.smp
                     ELSE Reject(g.smp)
               /\ current' = IF accepted /\ ~g.panicked THEN proposal ELSE current
               /\ consumed' = IF accepted /\ ~g.panicked THEN ConsumedBy(g.smp)
                              ELSE consumed
               /\ panicked' = (g.panicked \/ (~accepted /\ g.smp.iteration = 0))
               /\ it' = [mutation_type |-> mutated.mutation_type,
                         generated |-> g.smp,
                         current |-> current, proposal |-> proposal, a |-> a,
                         r |-> R(r, Grid), accepted |-> accepted /\ ~g.panicked,
                         accepts |-> it.accepts +
                                       (IF accepted /\ ~g.panicked THEN 1 ELSE 0),
                         deposits |-> IF g.panicked THEN << >> ELSE ds]
  /\ UNCHANGED <<pc, chain, bi, b, rest>>
  /\ UNCHANGED <<smpvars, fnvars>>

\* an iteration of the run loop in which pdf.sample selects another k
IterateElsewhere ==
  /\ pc = "loop" /\ ~panicked
  /\ MaxPathLength > 2
  /\ spp < AverageSamplesPerPixel
  /\ sample_count < MaxLoop
  /\ spp' = sample_count \div PixelCount
  /\ sample_count' = sample_count + 1
  /\ UNCHANGED <<pc, chain, bi, b, rest, sampler, current, gen, it, consumed,
                 panicked>>
  /\ UNCHANGED <<smpvars, fnvars>>

\* the run loop has ended
Finish ==
  /\ pc = "loop" /\ ~panicked
  /\ ~(spp < AverageSamplesPerPixel)
  /\ pc' = "done"
  /\ UNCHANGED <<chain, bi, b, rest, sampler, current, sample_count, spp,
                 gen, it, consumed, panicked>>
  /\ UNCHANGED <<smpvars, fnvars>>

NextRun == Bootstrap \/ Seed \/ Iterate \/ IterateElsewhere \/ Finish

SpecRun == Init /\ [][NextRun]_vars

\* ------------------------------------------------------------------ claims
\* the watched coordinate as the sampler holds it now
WatchedNow == smp.samples[pre.slot + 1]

\* C1 as stated: after mutate(); draws (each slot at most once); reject(), the
\* iteration counter and every drawn coordinate that existed before the
\* mutate() (stale ones included) have the value and the stamp they had before
C1_ReplayAsStated ==
  (last = "reject" /\ ~aborted /\ ~dup) =>
    /\ smp.iteration = pre.iteration
    /\ (pre.slot \in drawn /\ pre.exists) =>
         /\ WatchedNow.value = pre.value
         /\ WatchedNow.modified_at = pre.modified_at

\* C1 amended: after mutate(); draws (each slot at most once); reject(), the
\* iteration counter and large_step_at are as before the mutate(); a drawn
\* coordinate that existed with modified_at >= large_step_at has its value and
\* stamp of before; a drawn coordinate that was stale or did not exist is
\* kept with the stamp large_step_at
C1_Replay ==
  (last = "reject" /\ ~aborted /\ ~dup) =>
    /\ smp.iteration = pre.iteration
    /\ smp.large_step_at = pre.large_step_at
    /\ pre.slot \in drawn =>
         IF pre.exists /\ pre.modified_at >= pre.large_step_at
         THEN /\ WatchedNow.value = pre.value
              /\ WatchedNow.modified_at = pre.modified_at
         ELSE /\ pre.slot < Len(smp.samples)
              /\ WatchedNow.modified_at = smp.large_step_at

\* a rejected round that drew an up-to-date coordinate and gave it, before the
\* rollback, a value other than the one it is restored to
C1_Witness ==
  /\ last = "reject" /\ ~aborted /\ ~dup
  /\ pre.slot \in drawn /\ pre.exists
  /\ pre.modified_at >= pre.large_step_at
  /\ pre.iteration > 0
  /\ Cardinality(drawn) = 2

\* clamp(x, lo, hi) on reals
Clamp(x, lo, hi) == IF RLt(x, lo) THEN lo ELSE IF RLt(hi, x) THEN hi ELSE x

\* C2: acceptance(current, proposal) is clamp(proposal / current, 0, 1), in
\* [0,1], whenever current > 0 (a NaN ratio, which no clamp orders, still
\* gives a value in [0,1]), and is exactly 1 whenever current == 0
C2_Acceptance ==
  call.op = "acceptance" =>
    /\ RLt(Zero, call.current) =>
         /\ RLe(Zero, call.a) /\ RLe(call.a, One)
         /\ ~IsNaN(RDiv(call.proposal, call.current)) =>
              call.a = Clamp(RDiv(call.proposal, call.current), Zero, One)
    /\ REq(call.current, Zero) => call.a = One

\* the proposal has half the scalar of the current contribution
C2_Witness ==
  /\ call.op = "acceptance"
  /\ call.current = R(1, 10) /\ call.proposal = R(1, 20)
  /\ call.a = R(1, 2)

\* C3 as stated: for every path_length >= 0 Technique::sample returns without
\* aborting, with camera + light = path_length and 0 <= camera <= path_length
C3_TechniqueSplit ==
  call.op = "technique" =>
    /\ ~call.technique.panicked
    /\ ~call.technique.wrapped
    /\ call.technique.camera + call.technique.light = call.path_length
    /\ 0 <= call.technique.camera
    /\ call.technique.camera <= call.path_length

\* C4 as stated: camera = floor(u * (path_length + 1)), light the rest
C4_TechniqueUniform ==
  (call.op = "technique" /\ call.path_length >= 1) =>
    /\ call.technique.camera = Floor(RMul(call.u, R(call.path_length + 1, 1)))
    /\ call.technique.light = call.path_length - call.technique.camera

\* an interior vertex is Dirac: its pdf and its sampling_pdf are undefined
IsDirac(i) ==
  ~IsSome(i.sampling_pdf) /\ ~IsSome(i.pdf_light) /\ ~IsSome(i.pdf_camera)

AllInteriorDirac(ints) ==
  \A i \in 2..(Len(ints) - 1) : IsDirac(ints[i])

\* C6 as stated: a connected path whose interior vertices are all Dirac has
\* weight() == 1, no vertex of it adding a term to the sum
C6_DiracWeightOne ==
  (/\ call.op = "path" /\ call.path.ok
   /\ Len(call.interactions) >= 3
   /\ AllInteriorDirac(call.interactions)) =>
    /\ PathWeight(call.path) = One
    /\ \A i \in DOMAIN call.path.vertices :
         ~IsSome(VertexWeight(call.path.vertices[i]))

\* C8: start_stream(index) panics exactly when index >= stream_count; otherwise
\* it sets the current stream to index and the cursor to 0 and leaves the
\* coordinates, the iteration counter, large_step_at and the mutation kind alone
C8_StartStream ==
  [][last' = "start_stream" =>
       /\ aborted' <=> (arg' >= STREAM_COUNT)
       /\ ~aborted' =>
            /\ smp'.stream_index = arg'
            /\ smp'.sample_index = 0
            /\ smp'.samples = smp.samples
            /\ smp'.iteration = smp.iteration
            /\ smp'.large_step_at = smp.large_step_at
            /\ smp'.mutation_type = smp.mutation_type]_vars

\* start_stream of a valid index has moved a sampler with stored coordinates
\* and an advanced cursor back to cursor 0
C8_Witness ==
  /\ last = "start_stream" /\ ~aborted
  /\ arg = 1 /\ smp.stream_index = 1 /\ smp.sample_index = 0
  /\ 1 \in drawn
  /\ smp.iteration > 0

\* C9: accept() sets large_step_at to the iteration exactly when the preceding
\* mutate() chose a large step, leaves it unchanged (and below the iteration)
\* after a small step, and changes no coordinate and not the iteration counter
C9_Accept ==
  [][last' = "accept" =>
       /\ pre.large => smp'.large_step_at = smp.iteration
       /\ ~pre.large => /\ smp'.large_step_at = smp.large_step_at
                        /\ smp'.large_step_at < smp.iteration
       /\ smp'.samples = smp.samples
       /\ smp'.iteration = smp.iteration]_vars

\* an accepted large step after an accepted small step, with coordinates stored
C9_Witness ==
  /\ last = "accept" /\ pre.large
  /\ smp.large_step_at = smp.iteration
  /\ smp.iteration = 2 /\ pre.large_step_at = 0
  /\ drawn # {}

\* C5: Path::contribution returns the empty Contribution whenever pdf() is
\* 0, the throughput is black or weight() is 0, and no iteration of the run
\* loop passes a contribution of scalar 0 to Image::contribute
C5_EmptyNotDeposited ==
  /\ (gen.ok /\ (REq(gen.pdf, Zero) \/ REq(gen.throughput, Zero)
                   \/ REq(gen.weight, Zero)))
       => (gen.contribution = Empty /\ REq(gen.contribution.scalar, Zero))
  /\ \A i \in 1..Len(it.deposits) : ~REq(it.deposits[i].scalar, Zero)

\* an iteration generated a path of pdf() 0 and lit throughput: its
\* contribution is empty and only the current contribution was deposited
C5_Witness ==
  /\ gen.phase = "loop" /\ gen.ok
  /\ REq(gen.pdf, Zero) /\ ~REq(gen.throughput, Zero)
  /\ gen.contribution = Empty /\ it.proposal = Empty
  /\ Len(it.deposits) = 1 /\ it.deposits[1].of = "current"

IterationStep ==
  /\ pc = "loop" /\ pc' = "loop"
  /\ sample_count' = sample_count + 1
  /\ (it' # it \/ sampler' # sampler \/ current' # current)

\* C10: an iteration of the run loop does one mutate() on the sampler of the
\* selected k, one generation, then accept() with current[k] replaced by the
\* proposal when the uniform value is <= a, else reject() with current[k]
\* unchanged
C10_Iteration ==
  [][IterationStep =>
       LET a == Acceptance(current.scalar, it'.proposal.scalar)
       IN /\ it'.generated.iteration = sampler.iteration + 1
          /\ it'.a = a
          /\ IF RLe(it'.r, a)
             THEN sampler' = Accept(it'.generated) /\ current' = it'.proposal
             ELSE sampler' = Reject(it'.generated) /\ current' = current]_vars

\* a proposal was rejected: the uniform value was above a, the current
\* contribution and the iteration counter are as before the mutation
C10_Witness ==
  /\ gen.phase = "loop" /\ ~it.accepted
  /\ RLt(it.a, it.r)
  /\ current = it.current /\ ~IsEmpty(current)
  /\ sampler.iteration = it.generated.iteration - 1

\* C11 as stated: the run loop stops as soon as the number N of executed
\* iterations satisfies floor(N / P) >= S: it never executes more than S * P
\* iterations and has executed exactly S * P when it ends
C11_LoopCount ==
  /\ sample_count <= AverageSamplesPerPixel * PixelCount
  /\ pc = "done" => sample_count = AverageSamplesPerPixel * PixelCount

\* the deposit weight as C12 states it for the chain of path length L
StatedWeight(L, pdf_value, factor, scalar, bk) ==
  RDiv(RMul(RDiv(R(L + 1, 1), pdf_value), factor),
       RAdd(RDiv(scalar, bk), R(LargeStepNum, LargeStepDen)))

\* C12 as stated: in an iteration for the chain of path length L a non-empty
\* proposal is deposited with weight ((L+1) / pdf(L)) * (a + step_bonus) /
\* (proposal.scalar / b[L] + large_step_probability) and a non-empty current
\* contribution with ((L+1) / pdf(L)) * (1 - a) / (current.scalar / b[L] +
\* large_step_probability), whatever the accept/reject decision
C12_DepositWeights ==
  it.mutation_type # "none" =>
    LET L == LengthOf(chain)
        bonus == IF it.mutation_type = "LargeStep" THEN One ELSE Zero
        stated(d) ==
          IF d.of = "proposal"
          THEN RMul(it.proposal.spectrum,
                    StatedWeight(L, PdfValue(b, rest), RAdd(it.a, bonus),
                                 it.proposal.scalar, b))
          ELSE RMul(it.current.spectrum,
                    StatedWeight(L, PdfValue(b, rest), RSub(One, it.a),
                                 it.current.scalar, b))
    IN /\ \A i \in 1..Len(it.deposits) : it.deposits[i].spectrum = stated(it.deposits[i])
       /\ ~IsEmpty(it.proposal) => \E i \in 1..Len(it.deposits) : it.deposits[i].of = "proposal"
       /\ ~IsEmpty(it.current) => \E i \in 1..Len(it.deposits) : it.deposits[i].of = "current"

\* C13 as stated: when the pdf, the throughput or the weight of a path is
\* NaN, or the division by the pdf is undefined, Path::contribution returns
\* the empty Contribution, and no Contribution has a NaN scalar or spectrum
C13_NaNBecomesEmpty ==
  call.op = "contribution" =>
    /\ (IsNaN(call.pdf) \/ IsNaN(call.throughput) \/ IsNaN(call.weight)
          \/ REq(call.pdf, Zero))
         => call.contribution = Empty
    /\ ~IsNaN(call.contribution.scalar)
    /\ ~IsNaN(call.contribution.spectrum)

\* C14: an iteration of the run loop in which k is selected leaves
\* samplers[j] and contributions[j] of every other chain j as they were, and
\* leaves every b[j] as it was
C14_ChainsApart ==
  call.op = "iterate" =>
    /\ \A j \in Ks \ {call.k} :
         /\ call.samplers_after[j] = call.samplers[j]
         /\ call.contributions_after[j] = call.contributions[j]
    /\ call.b_after = call.b

\* C14's case: the selected chain's sampler and current contribution both
\* change while another chain holds a different sampler and contribution
C14_Witness ==
  /\ call.op = "iterate"
  /\ call.samplers_after[call.k] # call.samplers[call.k]
  /\ call.contributions_after[call.k] # call.contributions[call.k]
  /\ \E j \in Ks \ {call.k} :
       /\ call.samplers[j] # call.samplers_after[call.k]
       /\ call.contributions[j] # call.contributions_after[call.k]

\* the sum of a vector of numbers
RECURSIVE SumOf(_)
SumOf(v) == IF v = << >> THEN Zero ELSE RAdd(v[1], SumOf(Tail(v)))

\* C15: for a vector h of non-negative weights with a positive sum, Pdf::new
\* yields value(i) = h[i] / sum, the values sum to 1, the cdf is
\* non-decreasing and its last entry is 1; for 10, 20, 50, 15, 5 the values
\* are 0.1, 0.2, 0.5, 0.15, 0.05
C15_PdfNew ==
  (call.op = "pdf" /\ RLt(Zero, SumOf(call.h))) =>
    /\ \A i \in 1..Len(call.h) :
         call.pdf_values[i] = RDiv(call.h[i], SumOf(call.h))
    /\ SumOf(call.pdf_values) = One
    /\ \A i \in 2..Len(call.cdf) : RLe(call.cdf[i - 1], call.cdf[i])
    /\ call.cdf[Len(call.cdf)] = One
    /\ call.h = [k \in 1..5 |-> R(TestWeights[k], 1)] =>
         call.pdf_values = <<R(1, 10), R(1, 5), R(1, 2), R(3, 20), R(1, 20)>>

\* C15's case: Pdf::new has run on the vector 10, 20, 50, 15, 5
C15_Witness ==
  /\ call.op = "pdf"
  /\ call.h = [k \in 1..5 |-> R(TestWeights[k], 1)]
  /\ call.pdf_values[3] = R(1, 2)

\* C16: the draw number j after start_stream(s) writes and returns the
\* coordinate at slot STREAM_COUNT * j + s and leaves every other coordinate
\* that existed, those of the other streams among them, as it was; distinct
\* pairs (s, j) with s < STREAM_COUNT have distinct slots
C16_StreamSlots ==
  call.op = "draw" =>
    LET slot == STREAM_COUNT * call.j + call.stream
        before == call.before.samples
        after == call.after.samples
    IN /\ slot < Len(after)
       /\ after[slot + 1].modified_at = call.after.iteration
       /\ call.result = after[slot + 1].value
       /\ \A i \in 1..Len(before) : i # slot + 1 => after[i] = before[i]
       /\ \A i \in 1..Len(before) :
            (i - 1) % STREAM_COUNT # call.stream =>
              /\ after[i].value = before[i].value
              /\ after[i].modified_at = before[i].modified_at
       /\ \A s1 \in 0..(STREAM_COUNT - 1), s2 \in 0..(STREAM_COUNT - 1) :
          \A j1 \in 0..MaxDraws, j2 \in 0..MaxDraws :
            <<s1, j1>> # <<s2, j2>> =>
              STREAM_COUNT * j1 + s1 # STREAM_COUNT * j2 + s2

\* C16's case: a draw that is not the first of its stream changes its own
\* coordinate while a coordinate of another stream exists beyond it
C16_Witness ==
  /\ call.op = "draw"
  /\ call.j >= 1
  /\ LET slot == STREAM_COUNT * call.j + call.stream
     IN /\ slot + 1 < Len(call.before.samples)
        /\ call.after.samples[slot + 1].value #
             call.before.samples[slot + 1].value

\* C17 as stated: for the technique (k, 0), k >= 2, whenever the last
\* interaction the camera trace reaches, the one that makes the subpath k
\* vertices long, is a light interaction a path is yielded, and whenever it
\* is not a light interaction no path is yielded
C17_FullCameraPath ==
  call.op = "full_camera_path" =>
    LET hits == call.interactions
        complete == Len(hits) = call.path_length - 1
    IN /\ (complete /\ IsLight(hits[Len(hits)])) => call.path.ok
       /\ (complete /\ ~IsLight(hits[Len(hits)])) => ~call.path.ok

\* the coordinate at slot i - 1 of sampler s is stale: not touched since
\* before the last accepted large step
Stale(s, i) == s.samples[i].modified_at < s.large_step_at

\* C18, step by step.  A draw of a stale coordinate (one that sample() has
\* yet to push, after a large step, is stale as well) backs up a value of the
\* generator with the stamp large_step_at and stamps the coordinate with the
\* iteration; a reject() that follows the draw of a stale coordinate leaves
\* it with the backed-up value and the stamp large_step_at; and a coordinate
\* that is not stale is backed up as it is by a draw and stays not stale
\* until a large step is accepted
C18_Step ==
  /\ (last' = "sample" /\ SlotStale(smp)) =>
       LET x == smp'.samples[SlotIndex(smp) + 1]
       IN /\ x.backup_modified_at = smp.large_step_at
          /\ x.backup_value \in Vals
          /\ x.modified_at = smp.iteration
          /\ ~Stale(smp', SlotIndex(smp) + 1)
  /\ (last' = "reject" /\ ~aborted' /\ ~dup /\ pre.slot \in drawn
        /\ pre.exists /\ pre.modified_at < pre.large_step_at) =>
       /\ smp'.samples[pre.slot + 1].value =
            smp.samples[pre.slot + 1].backup_value
       /\ smp'.samples[pre.slot + 1].modified_at = smp'.large_step_at
       /\ smp'.large_step_at = pre.large_step_at
  /\ \A i \in 1..Len(smp.samples) :
       (~Stale(smp, i)
          /\ ~(last' = "accept" /\ smp.mutation_type = "LargeStep")) =>
         /\ ~Stale(smp', i)
         /\ (last' = "sample" /\ i = SlotIndex(smp) + 1) =>
              /\ smp'.samples[i].backup_value = smp.samples[i].value
              /\ smp'.samples[i].backup_modified_at = smp.samples[i].modified_at

C18_LazyCatchUp == [][C18_Step]_vars

\* C18's case: a coordinate that was stale at the mutate() has been drawn,
\* and the round has been rejected
C18_Witness ==
  /\ last = "reject" /\ ~aborted /\ ~dup
  /\ pre.slot \in drawn /\ pre.exists
  /\ pre.modified_at < pre.large_step_at
  /\ smp.samples[pre.slot + 1].modified_at = smp.large_step_at

\* C19, on every reject(): the
\* coordinates drawn in the round get the value and the stamp of their
\* backup, every other coordinate is left as it was, large_step_at is
\* unchanged and the iteration counter is one less
C19_Step ==
  (last' = "reject" /\ ~aborted') =>
    /\ Len(smp'.samples) = Len(smp.samples)
    /\ \A i \in 1..Len(smp.samples) :
         IF (i - 1) \in drawn
         THEN /\ smp'.samples[i].value = smp.samples[i].backup_value
              /\ smp'.samples[i].modified_at = smp.samples[i].backup_modified_at
         ELSE smp'.samples[i] = smp.samples[i]
    /\ smp'.large_step_at = smp.large_step_at
    /\ smp'.iteration = smp.iteration - 1

C19_RejectFrame == [][C19_Step]_vars

\* C19's case: a round that drew one of two coordinates has been rejected;
\* the drawn coordinate existed before the round and has its stamp of then
C19_Witness ==
  /\ last = "reject" /\ ~aborted
  /\ drawn = {pre.slot} /\ pre.exists
  /\ Len(smp.samples) = 2
  /\ WatchedNow.modified_at = pre.modified_at
  /\ smp.iteration = pre.iteration
  /\ pre.iteration >= 1

\* C20 as stated: in a connected path, a vertex whose forward density or
\* reverse density is undefined has no weight (Vertex::weight is None), so
\* that the loops of Path::weight skip it; a vertex with both densities
\* defined and a non-zero forward density has the ratio reverse / forward
C20_UndefinedAddsNoTerm ==
  (call.op = "path" /\ call.path.ok) =>
    \A i \in DOMAIN call.path.vertices :
      LET v == call.path.vertices[i]
      IN IF ~IsSome(v.forward_pdf) \/ ~IsSome(v.reverse_pdf)
         THEN ~IsSome(VertexWeight(v))
         ELSE ~REq(v.forward_pdf, Zero) =>
                VertexWeight(v) = RDiv(v.reverse_pdf, v.forward_pdf)

\* C21 as stated: the strategy depends on the counts alone: (0, k) the full
\* light trace; (k, 0), k >= 1, the full camera trace; (1, 1) the direct
\* connection; (1, k > 1) the light subpath joined to a camera point;
\* (k > 1, 1) the camera subpath joined to a light point; (k > 1, k > 1) the
\* two subpaths joined
C21_Dispatch ==
  call.op = "dispatch" =>
    LET c == call.technique.camera
        l == call.technique.light
    IN call.strategy =
         IF c = 0 THEN "connect_full_light_path"
         ELSE IF l = 0 THEN "connect_full_camera_path"
         ELSE IF c = 1 /\ l = 1 THEN "connect_camera_to_light"
         ELSE IF c = 1 THEN "connect_camera_to_light_subpath"
         ELSE IF l = 1 THEN "connect_camera_subpath_to_light"
         ELSE "connect_camera_subpath_to_light_subpath"

\* C22: under the techniques (1, 1) and (1, k > 1) a path is produced only
\* when a visibility ray was cast and the interaction it returned is a
\* camera interaction: a miss, a light or an object yields no path
C22_CameraVisible ==
  call.op = "camera_connection" =>
    /\ call.path.ok => (call.ray_cast /\ IsCamera(call.hit))
    /\ (call.ray_cast /\ ~IsCamera(call.hit)) => ~call.path.ok

\* C22's case: a light subpath of two or more vertices joined to the camera
\* by a ray that returned the camera; the path is produced
C22_Witness ==
  /\ call.op = "camera_connection"
  /\ call.technique.light >= 2
  /\ call.ray_cast /\ IsCamera(call.hit)
  /\ call.path.ok

\* C23: under a technique with two or more vertices on each side a path is
\* produced only when both subpaths end on object interactions and the ray
\* between their last vertices returned an interaction with the id of the
\* light subpath's last vertex: a miss or any other id yields no path
C23_MutuallyVisible ==
  call.op = "subpath_connection" =>
    /\ call.path.ok =>
         /\ call.ray_cast
         /\ IsObject(call.ends[1]) /\ IsObject(call.ends[2])
         /\ call.hit # Miss /\ call.hit.id = call.ends[2].id
    /\ (call.ray_cast /\ (call.hit = Miss \/ call.hit.id # call.ends[2].id))
         => ~call.path.ok
    /\ call.ray_cast => (IsObject(call.ends[1]) /\ IsObject(call.ends[2]))

\* C23's case: both subpaths end on objects, the ray returned the object
\* the light subpath ends on, and the path is produced
C23_Witness ==
  /\ call.op = "subpath_connection"
  /\ call.ray_cast
  /\ call.hit.id = call.ends[2].id
  /\ call.ends[1].id # call.ends[2].id
  /\ call.path.ok

\* C24: between the rounds of the run loop, on the chain followed, the
\* iteration counter of the sampler is the number of proposals accepted so
\* far, large_step_at and every coordinate's modified_at are at most the
\* iteration counter, and integrate() has not aborted: no reject() has run
\* with the counter at 0
C24_IterationCounts ==
  pc \in {"loop", "done"} =>
    /\ ~panicked
    /\ sampler.iteration = it.accepts
    /\ sampler.large_step_at <= sampler.iteration
    /\ \A i \in 1..Len(sampler.samples) :
         sampler.samples[i].modified_at <= sampler.iteration

\* C24's case: one proposal accepted as a large step, the next one rejected,
\* the coordinates it had drawn rolled back
C24_Witness ==
  /\ pc = "loop"
  /\ it.accepts = 1 /\ ~it.accepted
  /\ it.mutation_type # "none"
  /\ sampler.large_step_at = 1
  /\ it.generated.iteration = 2
  /\ \E i \in 1..Len(sampler.samples) :
       it.generated.samples[i].modified_at = 2

\* what C25 and its amendment share, on a step of the run loop that makes
\* a proposal from the sampler s0: Path::generate has drawn no slot twice,
\* and the slots it has drawn are, in each stream, the first ones; Backed
\* says what the backup of a drawn coordinate must be
GenerateDrawsOnce(Backed(_, _)) ==
  it' # it =>
    LET g == it'.generated
    IN /\ ~g.twice
       /\ g.drawn # {}
       /\ \A slot \in g.drawn :
            /\ slot >= STREAM_COUNT => (slot - STREAM_COUNT) \in g.drawn
            /\ g.samples[slot + 1].modified_at = g.iteration
            /\ Backed(g.samples[slot + 1], slot + 1)

\* C25 as stated: no slot is drawn twice in an iteration, and the backup of
\* every drawn coordinate that existed is its value and stamp of before the
\* iteration
C25_BackupAsStated ==
  [][GenerateDrawsOnce(LAMBDA x, i :
        i <= Len(sampler.samples) =>
          /\ x.backup_value = sampler.samples[i].value
          /\ x.backup_modified_at = sampler.samples[i].modified_at)]_vars

\* C25 amended: no slot is drawn twice in an iteration, and the backup of a
\* drawn coordinate is its value and stamp of before the iteration when it
\* existed and was not stale; the backup of a stale or new coordinate is the
\* caught-up value, stamped large_step_at
C25_BackupOnce ==
  [][GenerateDrawsOnce(LAMBDA x, i :
        IF i <= Len(sampler.samples)
             /\ sampler.samples[i].modified_at >= sampler.large_step_at
        THEN /\ x.backup_value = sampler.samples[i].value
             /\ x.backup_modified_at = sampler.samples[i].modified_at
        ELSE x.backup_modified_at = sampler.large_step_at)]_vars

\* C25's case: a proposal whose Path::generate started the three streams and
\* drew coordinates of each, one of them stale
C25_Witness ==
  /\ it.mutation_type # "none"
  /\ \A s \in 0..(STREAM_COUNT - 1) : s \in it.generated.drawn
  /\ \E slot \in it.generated.drawn :
       it.generated.samples[slot + 1].backup_modified_at = 1
  /\ it.generated.iteration = 2
  /\ it.generated.large_step_at = 1

\* C26: a Path that Path::generate returns for path_length has path_length
\* vertices, the first made from a camera interaction, whose pixel it has,
\* the last from a light interaction and the others from object
\* interactions; and what a camera trace returns has only object
\* interactions after its seed
C26_PathShape ==
  /\ (call.op = "generate" /\ call.path.ok) =>
       LET n == call.path_length
           kinds == call.path.kinds
       IN /\ Len(call.path.vertices) = n
          /\ Len(kinds) = n
          /\ call.path.camera + call.path.light = n
          /\ kinds[1] = "Camera"
          /\ kinds[n] = "Light"
          /\ \A i \in 2..(n - 1) : kinds[i] = "Object"
          /\ call.path.pixel_coordinates \in Pixels
  /\ call.op = "full_camera_path" =>
       \A i \in 2..Len(call.stack) : IsObject(call.stack[i])

\* C26's case: Path::generate has returned a path of four vertices
C26_Witness ==
  /\ call.op = "generate" /\ call.path.ok
  /\ call.path_length = 4
  /\ call.path.kinds = <<"Camera", "Object", "Object", "Light">>

\* C27: once chain k is seeded and after every iteration of the run loop,
\* each coordinate consumed when contributions[k] was generated holds in
\* samplers[k] the value consumed then, and none of them is stale: neither
\* a rejected proposal nor the lazy catch-up has altered it
C27_CommittedState ==
  (pc \in {"loop", "done"} /\ ~panicked) =>
    /\ consumed # {}
    /\ \A c \in consumed :
         /\ c[1] < Len(sampler.samples)
         /\ sampler.samples[c[1] + 1].value = c[2]
         /\ sampler.samples[c[1] + 1].modified_at >= sampler.large_step_at
         /\ sampler.samples[c[1] + 1].modified_at <= sampler.iteration

\* C27's case: after an accepted large step, a rejected proposal had given
\* another value to a coordinate the current contribution was made from,
\* and had caught up a stale coordinate
C27_Witness ==
  /\ pc = "loop" /\ ~panicked
  /\ it.mutation_type # "none" /\ ~it.accepted
  /\ it.accepts = 1
  /\ sampler.large_step_at = 1
  /\ \E c \in consumed : it.generated.samples[c[1] + 1].value # c[2]
  /\ \E i \in it.generated.drawn :
       it.generated.samples[i + 1].backup_modified_at = 1

\* C28: an iteration of the run loop whose current contribution has
\* scalar > 0 and whose proposal has scalar == 0 (so a is 0) rejects the
\* proposal, whatever value in [0, 1) the generator returns, 0 included
C28_NeverEmptied ==
  (/\ it.mutation_type # "none"
   /\ RLt(Zero, it.current.scalar)
   /\ IsEmpty(it.proposal)) => (it.a = Zero /\ ~it.accepted)

\* C29: for weights h with a positive sum and every r in [0, 1),
\* Pdf::sample returns an index within bounds whose Pdf::value is > 0, so
\* that the run loop never divides by a pdf.value(k) that is 0
C29_SampledHasMass ==
  (call.op = "pdf_sample" /\ RLt(Zero, SumOf(call.h))) =>
    /\ call.result \in 0..(Len(call.h) - 1)
    /\ RLt(Zero, call.pdf_values[call.result + 1])

\* a deposit weight whose numerator is given
WeightWith(numerator, pdf_value, factor, scalar, bk) ==
  RDiv(RMul(RDiv(R(numerator, 1), pdf_value), factor),
       RAdd(RDiv(scalar, bk), R(LargeStepNum, LargeStepDen)))

====
